---- MODULE Spec2Model ----
(***************************************************************************)
(* Model of the wmi client library (include/wmi/wmi.hxx): the lazy,        *)
(* batching QueryResult::Iterator and the range-for consumers of            *)
(* src/memory.cpp and src/storage.cpp (specification Spec), the Session     *)
(* (Interface) with its shared ownership (SessionSpec) and the property     *)
(* reads with their value conversions (PropertySpec).                       *)
(*                                                                         *)
(* The remote enumerator (IEnumWbemClassObject) is a cursor over a fixed    *)
(* sequence of `records` records; record k of the remote order is the       *)
(* number k.  A QueryResult and every Iterator made from it hold the SAME   *)
(* enumerator (CComPtr copies), so they share one cursor position.          *)
(***************************************************************************)
EXTENDS Integers, Sequences, FiniteSets

\* ------------------------------------------------------------------ bounds
MaxBatch == 2          \* batch limits explored besides the reference one
MaxN     == 5          \* largest result count
MaxIdle  == 1          \* operator++ calls explored on an exhausted iterator
MaxHold  == 2          \* most holders of one kind that share the Session
MaxProps == 2          \* properties the loop body reads from one record
MaxRecs  == 1          \* records after the first that the scan goes on to
MaxGuards == 2         \* COMInitializer objects the process constructs

\* ------------------------------------------------------- program constants
BATCH_SIZE == 10       \* QueryResult::Iterator::BATCH_SIZE
NULL       == 0        \* a null CComPtr<IEnumWbemClassObject>

Cursors == {1, 2}      \* the enumerators of two executed queries
Iters   == {1, 2}      \* iterator objects the client may construct

BatchSizes == (1..MaxBatch) \cup {BATCH_SIZE}

VARIABLES
    records,     \* N: number of records the remote enumerators yield
    batchLimit,  \* B: the count every Next call requests
    resetOk,     \* whether IEnumWbemClassObject::Reset is honoured
    pos,         \* pos[q]: records already handed out by enumerator q
    it,          \* it[i]: the fields of Iterator object i
    pc,          \* pc[i]: where the client of iterator i stands
    out,         \* out[i]: records the range-for body of i has dereferenced
    hist,        \* hist[i]: history of iterator i (construction, fetches)
    session,     \* "none", "alive" or "destroyed": the Interface object
    use_count,   \* strong count of the shared_ptr<Interface> control block
    holders,     \* live objects that hold a shared_ptr to the Interface
    lastCreate,  \* what the last Interface::Create call did
    lastQuery,   \* what the last Interface::ExecuteQuery call did
    read,        \* the last Object::GetProperty<T> call and its result
    scan,        \* progress of a loop body that reads several properties
    com          \* the COMInitializer objects and the COM calls each has made

iterVars    == <<records, batchLimit, resetOk, pos, it, pc, out, hist>>
sessionVars == <<session, use_count, holders, lastCreate, lastQuery>>
propVars    == <<read, scan>>
comVars     == <<com>>
vars == <<iterVars, sessionVars, propVars, comVars>>

Min(a, b) == IF a <= b THEN a ELSE b

\* --------------------------------------------------------------- Iterator
\* A default-initialised slot: no Iterator object has been constructed.
NoIterator ==
    [enumerator_ |-> NULL, batch_ |-> <<>>, current_index_ |-> 0,
     is_end_ |-> FALSE]

NoHistory ==
    [how |-> "none", argEnd |-> FALSE, nfetch |-> 0, lastFetch |-> "none",
     failed |-> FALSE, solo |-> TRUE, idle |-> 0]

\* IEnumWbemClassObject::Next(WBEM_INFINITE, limit, ...) at position p of a
\* cursor over n records: the records handed out, in remote order.
RemoteNext(p, n, limit) ==
    [k \in 1..Min(limit, n - p) |-> p + k]

\* An operation's effect: the iterator, the cursor positions, whether a
\* remote Next call was issued and how it ended.
Effect(iter, p, issued, outcome) ==
    [iter |-> iter, pos |-> p, issued |-> issued, outcome |-> outcome]

\* FetchNextBatch that returns on a failed Next call without setting is_end_.
FetchNextBatch_FailureNotEnd(self, p, ok) ==
    LET cleared == [self EXCEPT !.batch_ = <<>>, !.current_index_ = 0]
        ended   == [cleared EXCEPT !.is_end_ = TRUE]
    IN  IF self.enumerator_ = NULL
        THEN Effect(ended, p, FALSE, "none")
        ELSE LET q       == self.enumerator_
                 objects == IF ok THEN RemoteNext(p[q], records, batchLimit)
                                  ELSE <<>>
                 returned_count == Len(objects)
             IN  IF ~ok
                 THEN Effect(cleared, p, TRUE, "failed")
                 ELSE IF returned_count = 0
                 THEN Effect(ended, p, TRUE, "empty")
                 ELSE Effect([cleared EXCEPT !.batch_ = objects],
                             [p EXCEPT ![q] = @ + returned_count],
                             TRUE, "ok")

\* FetchNextBatch that on a failed Next call keeps the batch it had and
\* starts over at its first element.
FetchNextBatch_StaleOnFailure(self, p, ok) ==
    LET cleared == [self EXCEPT !.batch_ = <<>>, !.current_index_ = 0]
        ended   == [cleared EXCEPT !.is_end_ = TRUE]
    IN  IF self.enumerator_ = NULL
        THEN Effect(ended, p, FALSE, "none")
        ELSE LET q       == self.enumerator_
                 objects == IF ok THEN RemoteNext(p[q], records, batchLimit)
                                  ELSE <<>>
                 returned_count == Len(objects)
             IN  IF ~ok /\ self.batch_ # <<>>
                 THEN Effect([self EXCEPT !.current_index_ = 0], p,
                             TRUE, "failed")
                 ELSE IF ~ok \/ returned_count = 0
                 THEN Effect(ended, p, TRUE,
                             IF ok THEN "empty" ELSE "failed")
                 ELSE Effect([cleared EXCEPT !.batch_ = objects],
                             [p EXCEPT ![q] = @ + returned_count],
                             TRUE, "ok")

\* FetchNextBatch that ends the pass on a failed call only, not on a call
\* that returns no object.
FetchNextBatch_EmptyNotEnd(self, p, ok) ==
    LET cleared == [self EXCEPT !.batch_ = <<>>, !.current_index_ = 0]
        ended   == [cleared EXCEPT !.is_end_ = TRUE]
    IN  IF self.enumerator_ = NULL
        THEN Effect(ended, p, FALSE, "none")
        ELSE LET q       == self.enumerator_
                 objects == IF ok THEN RemoteNext(p[q], records, batchLimit)
                                  ELSE <<>>
                 returned_count == Len(objects)
             IN  IF ~ok
                 THEN Effect(ended, p, TRUE, "failed")
                 ELSE Effect([cleared EXCEPT !.batch_ = objects],
                             [p EXCEPT ![q] = @ + returned_count],
                             TRUE, IF returned_count = 0 THEN "empty"
                                                         ELSE "ok")

\* FetchNextBatch without batch_.clear() and the reset of current_index_:
\* the new objects are stored after the old ones.
FetchNextBatch_Appends(self, p, ok) ==
    LET ended == [self EXCEPT !.is_end_ = TRUE]
    IN  IF self.enumerator_ = NULL
        THEN Effect(ended, p, FALSE, "none")
        ELSE LET q       == self.enumerator_
                 objects == IF ok THEN RemoteNext(p[q], records, batchLimit)
                                  ELSE <<>>
                 returned_count == Len(objects)
             IN  IF ~ok \/ returned_count = 0
                 THEN Effect(ended, p, TRUE,
                             IF ok THEN "empty" ELSE "failed")
                 ELSE Effect([self EXCEPT !.batch_ = @ \o objects],
                             [p EXCEPT ![q] = @ + returned_count],
                             TRUE, "ok")

\* QueryResult::Iterator::FetchNextBatch; ok = the Next call did not fail.
FetchNextBatch(self, p, ok) ==
    LET cleared == [self EXCEPT !.batch_ = <<>>, !.current_index_ = 0]
        ended   == [cleared EXCEPT !.is_end_ = TRUE]
    IN  IF self.enumerator_ = NULL
        THEN Effect(ended, p, FALSE, "none")
        ELSE LET q       == self.enumerator_
                 objects == IF ok THEN RemoteNext(p[q], records, batchLimit)
                                  ELSE <<>>
                 returned_count == Len(objects)
             IN  IF ~ok \/ returned_count = 0
                 THEN Effect(ended, p, TRUE,
                             IF ok THEN "empty" ELSE "failed")
                 ELSE Effect([cleared EXCEPT !.batch_ = objects],
                             [p EXCEPT ![q] = @ + returned_count],
                             TRUE, "ok")

\* A constructor that defers the first fetch to the first advance.
IteratorCtor_Lazy(enumerator, is_end, p, ok) ==
    Effect([enumerator_ |-> enumerator, batch_ |-> <<>>,
            current_index_ |-> 0, is_end_ |-> is_end], p, FALSE, "none")

\* QueryResult::Iterator::Iterator(iface, enumerator, is_end)
IteratorCtor(enumerator, is_end, p, ok) ==
    LET self == [enumerator_ |-> enumerator, batch_ |-> <<>>,
                 current_index_ |-> 0, is_end_ |-> is_end]
    IN  IF ~is_end /\ enumerator # NULL
        THEN FetchNextBatch(self, p, ok)
        ELSE Effect(self, p, FALSE, "none")

\* operator++ that fetches one element early and so drops the last record of
\* every batch.
OperatorInc_SkipLast(self, p, ok) ==
    IF self.is_end_
    THEN Effect(self, p, FALSE, "none")
    ELSE LET inc == [self EXCEPT !.current_index_ = @ + 1]
         IN  IF inc.current_index_ + 1 >= Len(inc.batch_)
             THEN FetchNextBatch(inc, p, ok)
             ELSE Effect(inc, p, FALSE, "none")

\* operator++ without the early return on is_end_.
OperatorInc_NoEndGuard(self, p, ok) ==
    LET inc == [self EXCEPT !.current_index_ = @ + 1]
    IN  IF inc.current_index_ >= Len(inc.batch_)
        THEN FetchNextBatch(inc, p, ok)
        ELSE Effect(inc, p, FALSE, "none")

\* operator++ that fetches a new batch on every call.
OperatorInc_AlwaysFetch(self, p, ok) ==
    IF self.is_end_
    THEN Effect(self, p, FALSE, "none")
    ELSE FetchNextBatch([self EXCEPT !.current_index_ = @ + 1], p, ok)

\* QueryResult::Iterator::operator++ (prefix)
OperatorInc(self, p, ok) ==
    IF self.is_end_
    THEN Effect(self, p, FALSE, "none")
    ELSE LET inc == [self EXCEPT !.current_index_ = @ + 1]
         IN  IF inc.current_index_ >= Len(inc.batch_)
             THEN FetchNextBatch(inc, p, ok)
             ELSE Effect(inc, p, FALSE, "none")

\* operator== that is true only of two exhausted iterators.
IterEq_BothEnd(a, b) == a.is_end_ /\ b.is_end_

\* operator== that compares every field.
IterEq_Structural(a, b) == a = b

\* QueryResult::Iterator::operator==
IterEq(a, b) == a.is_end_ = b.is_end_

\* QueryResult::Iterator::operator*
Deref(self) == self.batch_[self.current_index_ + 1]

\* ------------------------------------------------------------ QueryResult
\* A Reset that every cursor honours.
RemoteReset_Honoured(q, p) == [p EXCEPT ![q] = 0]

\* IEnumWbemClassObject::Reset as called by QueryResult::begin
RemoteReset(q, p) == IF resetOk THEN [p EXCEPT ![q] = 0] ELSE p

\* begin() that does not reset the enumerator.
QueryResultBegin_NoReset(q, p, ok) == IteratorCtor(q, FALSE, p, ok)

\* QueryResult::begin of the QueryResult that holds enumerator q
QueryResultBegin(q, p, ok) ==
    IteratorCtor(q, FALSE, IF q # NULL THEN RemoteReset(q, p) ELSE p, ok)

\* end() that hands its enumerator to the sentinel.
QueryResultEnd_Bound(q, p, ok) == IteratorCtor(q, TRUE, p, ok)

\* QueryResult::end of the QueryResult that holds enumerator q
QueryResultEnd(q, p, ok) == IteratorCtor(NULL, TRUE, p, ok)

\* The sentinel a range-for compares against
EndIterator == QueryResultEnd(NULL, pos, TRUE).iter

\* ---------------------------------------------------------------- history
\* Other live passes over the cursor of iterator i exist.
Shared(i, e) ==
    \E j \in Iters \ {i} :
        /\ hist[j].how # "none"
        /\ e # NULL
        /\ it[j].enumerator_ = e
        /\ ~it[j].is_end_

\* History after iterator i was constructed the way `how` says, with effect r.
Constructed(i, how, argEnd, r) ==
    [j \in Iters |->
        IF j = i
        THEN [how |-> how, argEnd |-> argEnd,
              nfetch |-> IF r.issued THEN 1 ELSE 0,
              lastFetch |-> r.outcome,
              failed |-> (r.outcome = "failed"),
              solo |-> ~Shared(i, r.iter.enumerator_),
              idle |-> 0]
        ELSE IF /\ (r.issued \/ how = "begin")
                /\ hist[j].how # "none"
                /\ it[j].enumerator_ = r.iter.enumerator_
                /\ ~it[j].is_end_
             THEN [hist[j] EXCEPT !.solo = FALSE]
             ELSE hist[j]]

\* History after operator++ on iterator i had effect r.
Advanced(i, r) ==
    [j \in Iters |->
        IF j = i
        THEN [hist[i] EXCEPT
                !.nfetch = IF r.issued THEN @ + 1 ELSE @,
                !.lastFetch = IF r.issued THEN r.outcome ELSE @,
                !.failed = @ \/ (r.outcome = "failed"),
                !.idle = IF it[i].is_end_ THEN @ + 1 ELSE @]
        ELSE IF /\ r.issued
                /\ hist[j].how # "none"
                /\ it[j].enumerator_ = it[i].enumerator_
                /\ ~it[j].is_end_
             THEN [hist[j] EXCEPT !.solo = FALSE]
             ELSE hist[j]]

\* ================================================================ Session
\* HRESULT values the remote calls may return: S_OK, S_FALSE,
\* WBEM_E_INVALID_CLASS (0x80041010), E_ACCESSDENIED (0x80070005).
HResults == {0, 1, -2147217392, -2147024891}

FAILED(hr)    == hr < 0
SUCCEEDED(hr) == hr >= 0

\* Wide characters of a query text: 'S', '*' and GREEK CAPITAL OMEGA.
WideChars == {83, 42, 937}
Queries   == {<<>>, <<83>>, <<42, 83>>, <<83, 937>>}
Paths     == {"cimv2", "nosuch"}

\* _com_util::ConvertBSTRToString: the text in the ANSI code page; a
\* character outside it becomes the default character '?'.
ConvertBSTRToString(w) ==
    [k \in 1..Len(w) |-> IF w[k] < 128 THEN w[k] ELSE 63]

\* Decimal digits of a natural number, most significant first.
RECURSIVE Digits(_)
Digits(n) == IF n < 10 THEN <<n>> ELSE Append(Digits(n \div 10), n % 10)

\* std::to_string(static_cast<unsigned>(hr)): the digits of hr mod 2^32,
\* computed without leaving 32-bit integers (2^32 = 429496729 * 10 + 6).
ToStringUnsigned(hr) ==
    IF hr >= 0
    THEN Digits(hr)
    ELSE LET q == hr \div 10
             r == hr % 10
         IN  Append(Digits(q + 429496729 + ((r + 6) \div 10)), (r + 6) % 10)

\* FormatHResultError(operation, hr): the parts of the string, in order.
FormatHResultError(operation, hr) ==
    <<operation, " (HRESULT: 0x", ToStringUnsigned(hr), ")">>

\* What a call gives back: an Exception with its message, or a value.
Thrown(message) == [thrown |-> TRUE, what |-> message]
Returned        == [thrown |-> FALSE, what |-> <<>>]

\* A constructor that does not check the result of CoSetProxyBlanket.
InterfaceCtor_BlanketUnchecked(path, hr1, hr2, hr3) ==
    IF FAILED(hr1)
    THEN [calls |-> <<"CoCreateInstance">>,
          result |-> Thrown(<<"Failed to create WbemLocator object. ">> \o
              FormatHResultError("Check if WMI service is available", hr1))]
    ELSE IF FAILED(hr2)
    THEN [calls |-> <<"CoCreateInstance", "ConnectServer">>,
          result |-> Thrown(<<"Could not connect to WMI namespace '", path,
                              "'. ">> \o
              FormatHResultError(
                  "Verify namespace exists and access permissions", hr2))]
    ELSE [calls |-> <<"CoCreateInstance", "ConnectServer",
                      "CoSetProxyBlanket">>,
          result |-> Returned]

\* Interface::Interface(PassKey, path); hr1..hr3 are the results of
\* CoCreateInstance, ConnectServer and CoSetProxyBlanket.
InterfaceCtor(path, hr1, hr2, hr3) ==
    IF FAILED(hr1)
    THEN [calls |-> <<"CoCreateInstance">>,
          result |-> Thrown(<<"Failed to create WbemLocator object. ">> \o
              FormatHResultError("Check if WMI service is available", hr1))]
    ELSE IF FAILED(hr2)
    THEN [calls |-> <<"CoCreateInstance", "ConnectServer">>,
          result |-> Thrown(<<"Could not connect to WMI namespace '", path,
                              "'. ">> \o
              FormatHResultError(
                  "Verify namespace exists and access permissions", hr2))]
    ELSE IF FAILED(hr3)
    THEN [calls |-> <<"CoCreateInstance", "ConnectServer",
                      "CoSetProxyBlanket">>,
          result |-> Thrown(
              <<"Could not set proxy blanket for WMI connection. ">> \o
              FormatHResultError("Authentication may have failed", hr3))]
    ELSE [calls |-> <<"CoCreateInstance", "ConnectServer",
                      "CoSetProxyBlanket">>,
          result |-> Returned]

\* ExecuteQuery that treats S_FALSE as a failure (hr != S_OK).
InterfaceExecuteQuery_NotOk(query, hr) ==
    IF hr # 0
    THEN Thrown(<<"WQL query execution failed for query: '",
                  ConvertBSTRToString(query), "'. ">> \o
             FormatHResultError(
                 "Check query syntax and target class availability", hr))
    ELSE Returned

\* Interface::ExecuteQuery(query); hr is the result of ExecQuery.
InterfaceExecuteQuery(query, hr) ==
    IF FAILED(hr)
    THEN Thrown(<<"WQL query execution failed for query: '",
                  ConvertBSTRToString(query), "'. ">> \o
             FormatHResultError(
                 "Check query syntax and target class availability", hr))
    ELSE Returned

\* Copying and destroying a std::shared_ptr<const Interface>.
SharedCopy(count)    == count + 1
SharedRelease(count) == count - 1

\* An Object that keeps the Interface without taking a share of it.
ObjectCtor_NoShare(count) == count

\* Object::Object(iface, object): the Object keeps a copy of the shared_ptr.
ObjectCtor(count) == SharedCopy(count)

\* The Interface is destroyed by the release that drops the count to zero.
AfterRelease(count) == IF count = 0 THEN "destroyed" ELSE session

NoHolders ==
    [handles |-> 0, results |-> 0, iterators |-> 0, batch |-> 0, copies |-> 0]

NoCreate == [path |-> "", codes |-> <<>>, calls |-> <<>>, result |-> Returned]
NoQuery  == [query |-> <<>>, code |-> 0, submitted |-> <<>>,
             result |-> Returned, failures |-> 0]

\* No Session has been asked for.
SessionIdle ==
    /\ session = "none"
    /\ use_count = 0
    /\ holders = NoHolders
    /\ lastCreate = NoCreate
    /\ lastQuery = NoQuery

\* No query has been executed: the iterator part stands still.
IteratorIdle ==
    /\ records = 0
    /\ batchLimit = BATCH_SIZE
    /\ resetOk = FALSE
    /\ pos = [q \in Cursors |-> 0]
    /\ it = [i \in Iters |-> NoIterator]
    /\ pc = [i \in Iters |-> "none"]
    /\ out = [i \in Iters |-> <<>>]
    /\ hist = [i \in Iters |-> NoHistory]

\* No COMInitializer has been constructed.
Guards  == 1..MaxGuards
NoGuard == [life |-> "none", initialized_ |-> FALSE, codes |-> <<>>,
            calls |-> <<>>, what |-> <<>>]

ComIdle == com = [g \in Guards |-> NoGuard]

\* No property has been read: no call, and a loop body at its start.
NoRead == [T |-> "", found |-> FALSE, fault |-> "none",
           variant |-> [vt |-> "VT_EMPTY",
                        bstrVal |-> [null |-> TRUE, text |-> <<>>],
                        parray |-> [null |-> TRUE, elems |-> <<>>],
                        lVal |-> 0],
           result |-> [has |-> FALSE, value |-> [kind |-> "none"],
                       raised |-> "none"]]
NoScan == [props |-> 0, recs |-> 0, aborted |-> FALSE, missed |-> {}]

PropertyIdle ==
    /\ read = NoRead
    /\ scan = NoScan

SessionInit == IteratorIdle /\ SessionIdle /\ PropertyIdle /\ ComIdle

\* auto wmi_interface = wmi::Interface::Create(path);
Create(path, hr1, hr2, hr3) ==
    /\ session = "none"
    /\ LET c == InterfaceCtor(path, hr1, hr2, hr3)
       IN  /\ lastCreate' = [path |-> path, codes |-> <<hr1, hr2, hr3>>,
                             calls |-> c.calls, result |-> c.result]
           /\ IF c.result.thrown
              THEN UNCHANGED <<session, use_count, holders>>
              ELSE /\ session' = "alive"
                   /\ use_count' = 1
                   /\ holders' = [holders EXCEPT !.handles = 1]
    /\ UNCHANGED <<iterVars, propVars, comVars, lastQuery>>

\* Passing the shared_ptr by value: QueryMemoryInfo(wmi_interface)
CopyHandle ==
    /\ holders.handles \in 1..(MaxHold - 1)
    /\ use_count' = SharedCopy(use_count)
    /\ holders' = [holders EXCEPT !.handles = @ + 1]
    /\ UNCHANGED <<iterVars, propVars, comVars, session, lastCreate, lastQuery>>

\* A caller's shared_ptr goes out of scope.
ReleaseHandle ==
    /\ holders.handles > 0
    /\ use_count' = SharedRelease(use_count)
    /\ session' = AfterRelease(use_count')
    /\ holders' = [holders EXCEPT !.handles = @ - 1]
    /\ UNCHANGED <<iterVars, propVars, comVars, lastCreate, lastQuery>>

\* auto result = wmi_interface->ExecuteQuery(query);
ExecuteQuery(query, hr) ==
    /\ session = "alive"
    /\ holders.handles > 0
    /\ holders.results < MaxHold
    /\ LET r == InterfaceExecuteQuery(query, hr)
       IN  /\ lastQuery' = [query |-> query, code |-> hr,
                            submitted |-> query, result |-> r,
                            failures |-> IF r.thrown
                                         THEN Min(lastQuery.failures + 1, 1)
                                         ELSE lastQuery.failures]
           /\ IF r.thrown
              THEN UNCHANGED <<use_count, holders>>
              ELSE /\ use_count' = SharedCopy(use_count)
                   /\ holders' = [holders EXCEPT !.results = @ + 1]
    /\ UNCHANGED <<iterVars, propVars, comVars, session, lastCreate>>

\* A QueryResult goes out of scope.
DestroyResult ==
    /\ holders.results > 0
    /\ use_count' = SharedRelease(use_count)
    /\ session' = AfterRelease(use_count')
    /\ holders' = [holders EXCEPT !.results = @ - 1]
    /\ UNCHANGED <<iterVars, propVars, comVars, lastCreate, lastQuery>>

\* result.begin() / result.end(): the Iterator copies the result's iface_.
MakeIterator ==
    /\ holders.results > 0
    /\ holders.iterators = 0
    /\ use_count' = SharedCopy(use_count)
    /\ holders' = [holders EXCEPT !.iterators = 1]
    /\ UNCHANGED <<iterVars, propVars, comVars, session, lastCreate, lastQuery>>

\* batch_.clear(): each of the k Objects of the batch gives up its share.
RECURSIVE BatchClear(_, _)
BatchClear(k, count) ==
    IF k = 0 THEN count ELSE BatchClear(k - 1, SharedRelease(count))

\* batch_.emplace_back(Object(iface_, objects[i])) for k records.
RECURSIVE BatchEmplace(_, _)
BatchEmplace(k, count) ==
    IF k = 0 THEN count ELSE BatchEmplace(k - 1, ObjectCtor(count))

\* FetchNextBatch: batch_.clear() destroys the old Objects, then one Object
\* is constructed for each of the n records returned.
IteratorFetch(n) ==
    /\ holders.iterators = 1
    /\ LET cleared == BatchClear(holders.batch, use_count)
       IN  use_count' = BatchEmplace(n, cleared)
    /\ session' = AfterRelease(use_count')
    /\ holders' = [holders EXCEPT !.batch = n]
    /\ UNCHANGED <<iterVars, propVars, comVars, lastCreate, lastQuery>>

\* Object copy = *it;  Object has an implicit public copy constructor.
CopyObject ==
    /\ holders.batch > 0
    /\ holders.copies < MaxHold
    /\ use_count' = SharedCopy(use_count)
    /\ holders' = [holders EXCEPT !.copies = @ + 1]
    /\ UNCHANGED <<iterVars, propVars, comVars, session, lastCreate, lastQuery>>

\* A copied Object goes out of scope.
DestroyObject ==
    /\ holders.copies > 0
    /\ use_count' = SharedRelease(use_count)
    /\ session' = AfterRelease(use_count')
    /\ holders' = [holders EXCEPT !.copies = @ - 1]
    /\ UNCHANGED <<iterVars, propVars, comVars, lastCreate, lastQuery>>

\* The Iterator goes out of scope: its batch_ and its iface_ are destroyed.
DestroyIterator ==
    /\ holders.iterators = 1
    /\ use_count' =
           SharedRelease(BatchClear(holders.batch, use_count))
    /\ session' = AfterRelease(use_count')
    /\ holders' = [holders EXCEPT !.iterators = 0, !.batch = 0]
    /\ UNCHANGED <<iterVars, propVars, comVars, lastCreate, lastQuery>>

SessionNext ==
    \/ \E path \in Paths, hr1, hr2, hr3 \in HResults :
           Create(path, hr1, hr2, hr3)
    \/ CopyHandle
    \/ ReleaseHandle
    \/ \E query \in Queries, hr \in HResults : ExecuteQuery(query, hr)
    \/ DestroyResult
    \/ MakeIterator
    \/ \E n \in 0..MaxHold : IteratorFetch(n)
    \/ CopyObject
    \/ DestroyObject
    \/ DestroyIterator

SessionSpec == SessionInit /\ [][SessionNext]_vars

\* ------------------------------------------------------ session vocabulary
\* QueryResults, Iterators and Property Objects made from the Session.
Downstream == holders.results + holders.iterators + holders.batch
                  + holders.copies
AllHolders == holders.handles + Downstream

NegotiationSteps == <<"CoCreateInstance", "ConnectServer", "CoSetProxyBlanket">>

\* The first negotiation step whose result is a failure; 0 if none is.
FirstFailure(codes) ==
    IF \E k \in 1..Len(codes) : FAILED(codes[k])
    THEN CHOOSE k \in 1..Len(codes) :
             FAILED(codes[k]) /\ \A m \in 1..(k - 1) : SUCCEEDED(codes[m])
    ELSE 0

RECURSIVE DigitsValue(_)
DigitsValue(ds) ==
    IF ds = <<>> THEN 0
    ELSE 10 * DigitsValue(SubSeq(ds, 1, Len(ds) - 1)) + ds[Len(ds)]

\* The HRESULT whose unsigned value has the decimal digits ds.
HResultOfDigits(ds) ==
    LET t == DigitsValue(SubSeq(ds, 1, Len(ds) - 1))
        d == ds[Len(ds)]
    IN  IF t < 214748364 \/ (t = 214748364 /\ d <= 7)
        THEN 10 * t + d
        ELSE 10 * (t - 429496729) + (d - 6)

\* The status code an Exception message carries (FormatHResultError).
StatusOf(message) == HResultOfDigits(message[Len(message) - 1])

\* C11: the Session is alive, with a positive holder count, in every state
\* where a QueryResult, Iterator or Property Object made from it exists, also
\* when the caller holds no handle; it is destroyed exactly by the release of
\* the last holder.
C11_SessionOutlivesHolders ==
    /\ [](/\ Downstream > 0 => session = "alive" /\ use_count > 0
          /\ session = "alive" => use_count = AllHolders /\ use_count > 0
          /\ session = "destroyed" => use_count = 0 /\ AllHolders = 0)
    /\ [][session = "alive" =>
              (session' = "destroyed" <=> AllHolders' = 0)]_vars

C11_Witness ==
    /\ session = "alive"
    /\ holders.handles = 0
    /\ holders.results = 0
    /\ holders.iterators = 0
    /\ holders.copies > 0

Types  == {"variant_t", "string", "vector", "long", "bool"}
Faults == {"none", "_com_error", "std::exception", "unknown"}

\* A BSTR: a null pointer or a wide string ("", "10", "C:", one OMEGA, "a").
NullBstr == [null |-> TRUE, text |-> <<>>]
Bstr(t)  == [null |-> FALSE, text |-> t]
Bstrs    == {NullBstr, Bstr(<<>>), Bstr(<<49, 48>>), Bstr(<<67, 58>>),
             Bstr(<<937>>)}

\* A SAFEARRAY of BSTR: a null pointer or its elements.
NullArray    == [null |-> TRUE, elems |-> <<>>]
SafeArray(e) == [null |-> FALSE, elems |-> e]
Arrays ==
    {NullArray, SafeArray(<<>>), SafeArray(<<NullBstr>>),
     SafeArray(<<Bstr(<<97>>), NullBstr, Bstr(<<98>>)>>),
     SafeArray(<<Bstr(<<937>>), Bstr(<<97>>)>>)}

\* A VARIANT as IWbemClassObject::Get fills it in.
Variant(vt, b, a, n) == [vt |-> vt, bstrVal |-> b, parray |-> a, lVal |-> n]
Variants ==
    {Variant(vt, NullBstr, NullArray, 0) : vt \in {"VT_EMPTY", "VT_NULL"}}
    \cup {Variant("VT_BSTR", b, NullArray, 0) : b \in Bstrs}
    \cup {Variant("VT_ARRAY|VT_BSTR", NullBstr, a, 0) : a \in Arrays}
    \cup {Variant("VT_I4", NullBstr, NullArray, n) : n \in {0, 7}}
    \cup {Variant("VT_BOOL", NullBstr, NullArray, n) : n \in {-1, 0}}

\* The values a std::optional<T> may hold, by T.
Text(t)   == [kind |-> "string", text |-> t]
List(l)   == [kind |-> "vector", items |-> l]
Long(n)   == [kind |-> "long", num |-> n]
Bool(b)   == [kind |-> "bool", flag |-> b]
Native(v) == [kind |-> "variant_t", variant |-> v]
Nothing   == [kind |-> "none"]

\* What a call gives back: std::nullopt, a populated optional, or an
\* exception that leaves the call.
Nullopt     == [has |-> FALSE, value |-> Nothing, raised |-> "none"]
Some(v)     == [has |-> TRUE, value |-> v, raised |-> "none"]
Raised(exc) == [has |-> FALSE, value |-> Nothing, raised |-> exc]

\* ConvertBstrToString without the null test of bstrVal.
ConvertBstrToString_NullUnchecked(variant) ==
    IF variant.vt = "VT_BSTR"
    THEN Some(Text(ConvertBSTRToString(variant.bstrVal.text)))
    ELSE Nullopt

\* ConvertBstrToString(variant)
ConvertBstrToString(variant) ==
    IF variant.vt = "VT_BSTR" /\ ~variant.bstrVal.null
    THEN Some(Text(ConvertBSTRToString(variant.bstrVal.text)))
    ELSE Nullopt

\* The loop of ConvertVariant<std::vector<std::string>> over elements
\* i..count of the attached array, appending to result.
RECURSIVE CollectStrings(_, _, _)
CollectStrings(elems, i, result) ==
    IF i > Len(elems)
    THEN result
    ELSE CollectStrings(elems, i + 1,
             IF ~elems[i].null
             THEN Append(result, ConvertBSTRToString(elems[i].text))
             ELSE result)

\* The vector converter with a loop that does not skip null elements.
ConvertVariantVector_KeepsNull(variant, fault) ==
    IF variant.vt # "VT_ARRAY|VT_BSTR"
    THEN Nullopt
    ELSE IF variant.parray.null \/ fault # "none"
    THEN Nullopt
    ELSE Some(List([k \in 1..Len(variant.parray.elems) |->
                      ConvertBSTRToString(variant.parray.elems[k].text)]))

\* ConvertVariant<std::vector<std::string>>(variant); CComSafeArray::Attach
\* throws on a null array pointer or when fault says so.
ConvertVariantVector(variant, fault) ==
    IF variant.vt # "VT_ARRAY|VT_BSTR"
    THEN Nullopt
    ELSE IF variant.parray.null \/ fault # "none"
    THEN Nullopt
    ELSE Some(List(CollectStrings(variant.parray.elems, 1, <<>>)))

\* A BSTR that VariantChangeType reads as a number: decimal digits only.
IsNumber(b) ==
    /\ ~b.null
    /\ Len(b.text) > 0
    /\ \A k \in 1..Len(b.text) : b.text[k] \in 48..57

RECURSIVE ParseNumber(_)
ParseNumber(t) ==
    IF t = <<>> THEN 0
    ELSE 10 * ParseNumber(SubSeq(t, 1, Len(t) - 1)) + (t[Len(t)] - 48)

\* static_cast<T>(variant_t(variant)) for T = long, bool: the value, or the
\* exception that comes out of it (_com_error when the VARIANT cannot be
\* changed to T's type).
VariantCast(T, variant, fault) ==
    LET number ==
            IF variant.vt \in {"VT_I4", "VT_BOOL"} THEN variant.lVal
            ELSE IF variant.vt = "VT_EMPTY" THEN 0
            ELSE ParseNumber(variant.bstrVal.text)
        castable ==
            \/ variant.vt \in {"VT_I4", "VT_BOOL", "VT_EMPTY"}
            \/ variant.vt = "VT_BSTR" /\ IsNumber(variant.bstrVal)
    IN  IF fault # "none"
        THEN [thrown |-> fault, value |-> Nothing]
        ELSE IF ~castable
        THEN [thrown |-> "_com_error", value |-> Nothing]
        ELSE [thrown |-> "none",
              value |-> IF T = "bool" THEN Bool(number # 0)
                                      ELSE Long(number)]

\* The generic converter without its catch (...) clause.
ConvertVariant_NoCatchAll(T, variant, fault) ==
    LET c == VariantCast(T, variant, fault)
    IN  IF c.thrown = "none" THEN Some(c.value)
        ELSE IF c.thrown = "_com_error" THEN Nullopt
        ELSE IF c.thrown = "std::exception" THEN Nullopt
        ELSE Raised(c.thrown)

\* ConvertVariant<T>(variant), the generic template
ConvertVariant(T, variant, fault) ==
    LET c == VariantCast(T, variant, fault)
    IN  IF c.thrown = "none" THEN Some(c.value)
        ELSE IF c.thrown = "_com_error" THEN Nullopt
        ELSE IF c.thrown = "std::exception" THEN Nullopt
        ELSE Nullopt

\* ConvertVariant<T>: the specialisation the compiler selects for T.
ConvertVariantAs(T, variant, fault) ==
    IF T = "string" THEN ConvertBstrToString(variant)
    ELSE IF T = "vector" THEN ConvertVariantVector(variant, fault)
    ELSE ConvertVariant(T, variant, fault)

\* GetProperty that does not test the result of IWbemClassObject::Get.
GetProperty_LookupUnchecked(T, found, variant, fault) ==
    IF T = "variant_t"
    THEN Some(Native(variant))
    ELSE ConvertVariantAs(T, variant, fault)

\* Object::GetProperty<T>(name); found = the Get call did not fail.
GetProperty(T, found, variant, fault) ==
    IF ~found
    THEN Nullopt
    ELSE IF T = "variant_t"
    THEN Some(Native(variant))
    ELSE ConvertVariantAs(T, variant, fault)

PropertyInit == IteratorIdle /\ SessionIdle /\ PropertyIdle /\ ComIdle

\* auto p = obj.GetProperty<T>(name);  one of the reads of a loop body
ReadProperty(T, found, variant, fault) ==
    /\ ~scan.aborted
    /\ scan.props < MaxProps
    /\ LET r == GetProperty(T, found, variant, fault)
           \* what static_cast threw in this call, for the record
           threw == IF found /\ T \in {"long", "bool"}
                    THEN {VariantCast(T, variant, fault).thrown} \ {"none"}
                    ELSE {}
       IN  /\ read' = [T |-> T, found |-> found, variant |-> variant,
                       fault |-> fault, result |-> r]
           /\ scan' = IF r.raised # "none"
                      THEN [scan EXCEPT !.aborted = TRUE,
                                        !.missed = @ \cup threw]
                      ELSE [scan EXCEPT !.props = @ + 1,
                                        !.missed = @ \cup threw]
    /\ UNCHANGED <<iterVars, sessionVars, comVars>>

\* The loop body is through with its reads and the range-for goes on.
NextRecord ==
    /\ ~scan.aborted
    /\ scan.props = MaxProps
    /\ scan.recs < MaxRecs
    /\ scan' = [scan EXCEPT !.props = 0, !.recs = @ + 1]
    /\ UNCHANGED <<iterVars, sessionVars, comVars, read>>

PropertyNext ==
    \/ \E T \in Types, found \in BOOLEAN, variant \in Variants,
          fault \in Faults : ReadProperty(T, found, variant, fault)
    \/ NextRecord

PropertySpec == PropertyInit /\ [][PropertyNext]_vars

\* ------------------------------------------------------ property vocabulary
\* The read the last GetProperty call made looked the property up.
Looked(T) == read # NoRead /\ read.T = T /\ read.found

\* What the specification calls the subsequence of non-null elements, each
\* decoded to narrow text.
NonNullTexts(elems) ==
    LET kept == SelectSeq(elems, LAMBDA b : ~b.null)
    IN  [k \in 1..Len(kept) |-> ConvertBSTRToString(kept[k].text)]

\* CComSafeArray::Attach took the array of the last read.
Attached == ~read.variant.parray.null /\ read.fault = "none"

\* C12: GetProperty<T> gives an empty optional for every T, the native
\* variant type included, when the lookup fails; when the lookup succeeds the
\* native variant type is always populated, with the looked-up value, and any
\* other T gives exactly what the converter for T gives.
C12_GetPropertyLookup ==
    read # NoRead =>
        /\ ~read.found => read.result = Nullopt
        /\ read.found /\ read.T = "variant_t" =>
               read.result = Some(Native(read.variant))
        /\ read.found /\ read.T # "variant_t" =>
               read.result =
                   ConvertVariantAs(read.T, read.variant, read.fault)

C12_Witness ==
    /\ read # NoRead
    /\ read.T = "variant_t"
    /\ ~read.found
    /\ ~read.result.has
    /\ scan.props > 0

\* C13: conversion to string succeeds only when the tag is string and the
\* payload is not null, and then gives the decoded text; every other value
\* gives an empty optional and nothing is raised.
C13_StringOnlyFromNonNullBstr ==
    Looked("string") =>
        /\ read.result.raised = "none"
        /\ read.result.has <=>
               (read.variant.vt = "VT_BSTR" /\ ~read.variant.bstrVal.null)
        /\ read.result.has =>
               read.result.value =
                   Text(ConvertBSTRToString(read.variant.bstrVal.text))
        /\ ~read.result.has => read.result = Nullopt

C13_Witness ==
    /\ Looked("string")
    /\ read.variant.vt = "VT_BSTR"
    /\ read.variant.bstrVal.null
    /\ read.result = Nullopt

\* C14 as stated: conversion to a sequence of strings gives an empty
\* optional when the tag is not array-of-string, and when it is, the result
\* is exactly the non-null elements in their order.
C14_VectorIsNonNullElements ==
    Looked("vector") =>
        IF read.variant.vt # "VT_ARRAY|VT_BSTR"
        THEN read.result = Nullopt
        ELSE read.result = Some(List(NonNullTexts(read.variant.parray.elems)))

\* C14 amended: an empty optional when the tag is not array-of-string or
\* when attaching to the array fails; when the tag is array-of-string and
\* the array is attached, exactly the non-null elements in their order.
C14_VectorIsNonNullElementsIfAttached ==
    Looked("vector") =>
        IF read.variant.vt # "VT_ARRAY|VT_BSTR" \/ ~Attached
        THEN read.result = Nullopt
        ELSE read.result = Some(List(NonNullTexts(read.variant.parray.elems)))

C14_Witness ==
    /\ Looked("vector")
    /\ read.variant.vt = "VT_ARRAY|VT_BSTR"
    /\ Attached
    /\ Len(read.variant.parray.elems) = 3
    /\ read.result.has
    /\ read.result.value = List(<<<<97>>, <<98>>>>)

\* C15: for any other T a conversion that fails, whether by a typed
\* remote-API error, a generic runtime error or an unknown fault, gives an
\* empty optional and nothing leaves the call; the loop body goes on to its
\* next read and the iteration to its next record.
C15_ConversionFailureIsEmpty ==
    /\ [](/\ ~scan.aborted
          /\ read.result.raised = "none"
          /\ \A T \in {"long", "bool"} :
                 Looked(T) /\
                 VariantCast(T, read.variant, read.fault).thrown # "none"
                     => read.result = Nullopt)
    /\ [][scan'.missed # scan.missed =>
              /\ read'.result = Nullopt
              /\ scan'.props = scan.props + 1
              /\ ~scan'.aborted]_vars

C15_Witness ==
    /\ scan.missed = {"_com_error", "std::exception", "unknown"}
    /\ scan.recs > 0
    /\ Looked("long")
    /\ read.result = Some(Long(10))

\* ========================================================= COMInitializer
\* The two HRESULTs the constructor tolerates, and what CoInitializeEx and
\* CoInitializeSecurity may answer: S_OK, S_FALSE, the two tolerated codes,
\* E_OUTOFMEMORY.
RPC_E_CHANGED_MODE == -2147417850
RPC_E_TOO_LATE     == -2147417831
ComHResults == {0, 1, RPC_E_CHANGED_MODE, RPC_E_TOO_LATE, -2147024882}

\* What a constructor call leaves: the member, the COM calls made in order,
\* and whether it returned or threw.
ComEffect(initialized, calls, result) ==
    [initialized_ |-> initialized, calls |-> calls, result |-> result]

\* The constructor without CoUninitialize on a failed security step.
COMInitializerCtor_NoRollback(hr1, hr2) ==
    LET initialized == SUCCEEDED(hr1)
    IN  IF ~initialized /\ hr1 # RPC_E_CHANGED_MODE
        THEN ComEffect(FALSE, <<"CoInitializeEx">>,
                 Thrown(FormatHResultError(
                     "Failed to initialize COM library", hr1)))
        ELSE IF FAILED(hr2) /\ hr2 # RPC_E_TOO_LATE
        THEN ComEffect(initialized,
                 <<"CoInitializeEx", "CoInitializeSecurity">>,
                 Thrown(FormatHResultError(
                     "Failed to initialize COM security", hr2)))
        ELSE ComEffect(initialized,
                 <<"CoInitializeEx", "CoInitializeSecurity">>, Returned)

\* COMInitializer::COMInitializer(threading_model); hr1 and hr2 are what
\* CoInitializeEx and CoInitializeSecurity answer.
COMInitializerCtor(hr1, hr2) ==
    LET initialized == SUCCEEDED(hr1)
    IN  IF ~initialized /\ hr1 # RPC_E_CHANGED_MODE
        THEN ComEffect(FALSE, <<"CoInitializeEx">>,
                 Thrown(FormatHResultError(
                     "Failed to initialize COM library", hr1)))
        ELSE IF FAILED(hr2) /\ hr2 # RPC_E_TOO_LATE
        THEN ComEffect(FALSE,
                 IF initialized
                 THEN <<"CoInitializeEx", "CoInitializeSecurity",
                        "CoUninitialize">>
                 ELSE <<"CoInitializeEx", "CoInitializeSecurity">>,
                 Thrown(FormatHResultError(
                     "Failed to initialize COM security", hr2)))
        ELSE ComEffect(initialized,
                 <<"CoInitializeEx", "CoInitializeSecurity">>, Returned)

\* COMInitializer::~COMInitializer: the COM calls of the object so far.
COMInitializerDtor(self) ==
    IF self.initialized_ THEN Append(self.calls, "CoUninitialize")
                         ELSE self.calls

\* wmi::COMInitializer com_init(COINIT_MULTITHREADED);
ComConstruct(g, hr1, hr2) ==
    /\ com[g].life = "none"
    /\ LET c == COMInitializerCtor(hr1, hr2)
       IN  com' = [com EXCEPT ![g] =
                     [life |-> IF c.result.thrown THEN "thrown" ELSE "alive",
                      initialized_ |-> c.initialized_,
                      codes |-> <<hr1, hr2>>,
                      calls |-> c.calls,
                      what |-> c.result.what]]
    /\ UNCHANGED <<iterVars, sessionVars, propVars>>

\* com_init goes out of scope.
ComDestroy(g) ==
    /\ com[g].life = "alive"
    /\ com' = [com EXCEPT ![g].life = "destroyed",
                          ![g].calls = COMInitializerDtor(com[g])]
    /\ UNCHANGED <<iterVars, sessionVars, propVars>>

ComInit == IteratorIdle /\ SessionIdle /\ PropertyIdle /\ ComIdle

ComNext ==
    \/ \E g \in Guards, hr1 \in ComHResults, hr2 \in ComHResults :
           ComConstruct(g, hr1, hr2)
    \/ \E g \in Guards : ComDestroy(g)

ComSpec == ComInit /\ [][ComNext]_vars

\* ---------------------------------------------------------- COM vocabulary
\* CoUninitialize calls made by guard g.
Releases(g) == Len(SelectSeq(com[g].calls, LAMBDA c : c = "CoUninitialize"))

\* The lifetime of guard g is over: its constructor threw or it was destroyed.
Over(g) == com[g].life \in {"thrown", "destroyed"}

\* The security step of guard g was reached and failed.
SecurityFailed(g) ==
    /\ Len(com[g].calls) >= 2
    /\ FAILED(com[g].codes[2])
    /\ com[g].codes[2] # RPC_E_TOO_LATE

\* What holds of the releases of guard g whatever CoInitializeEx answered:
\* never more than one, none while the object lives, one at the end of its
\* life exactly when its own CoInitializeEx succeeded, made by the destructor
\* or before the throw of a failed security step; and a failure of
\* CoInitializeEx other than RPC_E_CHANGED_MODE throws at once without a
\* release.
ReleaseRule(g) ==
    /\ Releases(g) <= 1
    /\ com[g].life = "alive" => Releases(g) = 0
    /\ Over(g) => (Releases(g) = 1 <=> SUCCEEDED(com[g].codes[1]))
    /\ Releases(g) = 1 =>
           \/ com[g].life = "destroyed"
           \/ com[g].life = "thrown" /\ SecurityFailed(g)
    /\ FAILED(com[g].codes[1]) /\ com[g].codes[1] # RPC_E_CHANGED_MODE =>
           /\ com[g].life = "thrown"
           /\ com[g].calls = <<"CoInitializeEx">>
           /\ StatusOf(com[g].what) = com[g].codes[1]

\* C22 as stated: the release rule, and a guard whose CoInitializeEx
\* answered RPC_E_CHANGED_MODE neither throws nor ever releases.
C22_GuardReleasesIffInitialized ==
    \A g \in Guards :
        com[g].life # "none" =>
            /\ ReleaseRule(g)
            /\ com[g].codes[1] = RPC_E_CHANGED_MODE =>
                   /\ com[g].life # "thrown"
                   /\ Releases(g) = 0

\* C22 amended: the release rule, and a guard whose CoInitializeEx answered
\* RPC_E_CHANGED_MODE never releases and does not throw for that answer; it
\* goes on to the security step and throws exactly when that step fails,
\* with that step's code.
C22_GuardReleasesIffInitializedOrSecurityThrows ==
    \A g \in Guards :
        com[g].life # "none" =>
            /\ ReleaseRule(g)
            /\ com[g].codes[1] = RPC_E_CHANGED_MODE =>
                   /\ Releases(g) = 0
                   /\ com[g].life = "thrown" <=> SecurityFailed(g)
                   /\ com[g].life = "thrown" =>
                          StatusOf(com[g].what) = com[g].codes[2]

C22_Witness ==
    \E g, h \in Guards :
        /\ com[g].life = "thrown"
        /\ com[g].codes = <<1, -2147024882>>
        /\ com[g].calls =
               <<"CoInitializeEx", "CoInitializeSecurity", "CoUninitialize">>
        /\ com[h].life = "destroyed"
        /\ com[h].codes = <<RPC_E_CHANGED_MODE, RPC_E_TOO_LATE>>
        /\ Releases(h) = 0

\* ------------------------------------------------------------------- Init
Init ==
    /\ records \in 0..MaxN
    /\ batchLimit \in BatchSizes
    /\ resetOk \in BOOLEAN
    /\ pos = [q \in Cursors |-> 0]
    /\ it = [i \in Iters |-> NoIterator]
    /\ pc = [i \in Iters |-> "none"]
    /\ out = [i \in Iters |-> <<>>]
    /\ hist = [i \in Iters |-> NoHistory]
    /\ SessionIdle
    /\ PropertyIdle
    /\ ComIdle

\* ---------------------------------------------------------------- actions
\* auto it = result.begin();  loop = the iterator drives a range-for
Begin(i, q, loop, ok) ==
    /\ pc[i] = "none"
    /\ LET r == QueryResultBegin(q, pos, ok)
       IN  /\ it' = [it EXCEPT ![i] = r.iter]
           /\ pos' = r.pos
           /\ hist' = Constructed(i, "begin", FALSE, r)
    /\ pc' = [pc EXCEPT ![i] = IF loop THEN "test" ELSE "free"]
    /\ UNCHANGED <<records, batchLimit, resetOk, out>>
    /\ UNCHANGED <<sessionVars, propVars, comVars>>

\* auto it = result.end();
End(i, q) ==
    /\ pc[i] = "none"
    /\ LET r == QueryResultEnd(q, pos, TRUE)
       IN  /\ it' = [it EXCEPT ![i] = r.iter]
           /\ pos' = r.pos
           /\ hist' = Constructed(i, "end", TRUE, r)
    /\ pc' = [pc EXCEPT ![i] = "free"]
    /\ UNCHANGED <<records, batchLimit, resetOk, out>>
    /\ UNCHANGED <<sessionVars, propVars, comVars>>

\* QueryResult::Iterator it(iface, enumerator, is_end);  the public constructor
Construct(i, e, is_end, ok) ==
    /\ pc[i] = "none"
    /\ LET r == IteratorCtor(e, is_end, pos, ok)
       IN  /\ it' = [it EXCEPT ![i] = r.iter]
           /\ pos' = r.pos
           /\ hist' = Constructed(i, "ctor", is_end, r)
    /\ pc' = [pc EXCEPT ![i] = "free"]
    /\ UNCHANGED <<records, batchLimit, resetOk, out>>
    /\ UNCHANGED <<sessionVars, propVars, comVars>>

\* ++it; called directly by the client
Advance(i, ok) ==
    /\ pc[i] = "free"
    /\ it[i].is_end_ => hist[i].idle < MaxIdle
    /\ LET r == OperatorInc(it[i], pos, ok)
       IN  /\ it' = [it EXCEPT ![i] = r.iter]
           /\ pos' = r.pos
           /\ hist' = Advanced(i, r)
    /\ UNCHANGED <<records, batchLimit, resetOk, pc, out>>
    /\ UNCHANGED <<sessionVars, propVars, comVars>>

\* range-for: the test `it != end()`
LoopTest(i) ==
    /\ pc[i] = "test"
    /\ pc' = [pc EXCEPT ![i] = IF IterEq(it[i], EndIterator)
                               THEN "done" ELSE "body"]
    /\ UNCHANGED <<records, batchLimit, resetOk, pos, it, out, hist>>
    /\ UNCHANGED <<sessionVars, propVars, comVars>>

\* range-for: `const auto& obj = *it;` and the body
LoopBody(i) ==
    /\ pc[i] = "body"
    /\ it[i].current_index_ < Len(it[i].batch_)
    /\ out' = [out EXCEPT ![i] = Append(@, Deref(it[i]))]
    /\ pc' = [pc EXCEPT ![i] = "inc"]
    /\ UNCHANGED <<records, batchLimit, resetOk, pos, it, hist>>
    /\ UNCHANGED <<sessionVars, propVars, comVars>>

\* range-for: `++it`
LoopInc(i, ok) ==
    /\ pc[i] = "inc"
    /\ LET r == OperatorInc(it[i], pos, ok)
       IN  /\ it' = [it EXCEPT ![i] = r.iter]
           /\ pos' = r.pos
           /\ hist' = Advanced(i, r)
    /\ pc' = [pc EXCEPT ![i] = "test"]
    /\ UNCHANGED <<records, batchLimit, resetOk, out>>
    /\ UNCHANGED <<sessionVars, propVars, comVars>>

Next ==
    \/ \E i \in Iters, q \in Cursors, loop \in BOOLEAN, ok \in BOOLEAN :
           Begin(i, q, loop, ok)
    \/ \E i \in Iters, q \in Cursors : End(i, q)
    \/ \E i \in Iters, e \in Cursors \cup {NULL}, is_end \in BOOLEAN,
          ok \in BOOLEAN : Construct(i, e, is_end, ok)
    \/ \E i \in Iters, ok \in BOOLEAN : Advance(i, ok)
    \/ \E i \in Iters : LoopTest(i)
    \/ \E i \in Iters : LoopBody(i)
    \/ \E i \in Iters, ok \in BOOLEAN : LoopInc(i, ok)

Spec == Init /\ [][Next]_vars

\* ------------------------------------------------------- the range-for alone
\* for (const auto& obj : result) { ... } over the QueryResults, each loop
\* running on: a loop that can take a step eventually takes it.
LoopStep(i) ==
    \/ LoopTest(i)
    \/ LoopBody(i)
    \/ \E ok \in BOOLEAN : LoopInc(i, ok)

LoopNext ==
    \/ \E i \in Iters, q \in Cursors, ok \in BOOLEAN : Begin(i, q, TRUE, ok)
    \/ \E i \in Iters : LoopTest(i)
    \/ \E i \in Iters : LoopBody(i)
    \/ \E i \in Iters, ok \in BOOLEAN : LoopInc(i, ok)

LoopSpec ==
    /\ Init
    /\ [][LoopNext]_vars
    /\ \A i \in Iters : WF_vars(LoopStep(i))

\* ------------------------------------------------------------ type sanity
TypeOK ==
    /\ records \in 0..MaxN
    /\ batchLimit \in BatchSizes
    /\ \A q \in Cursors : pos[q] \in 0..records
    /\ \A i \in Iters :
        /\ it[i].enumerator_ \in Cursors \cup {NULL}
        /\ it[i].current_index_ \in 0..batchLimit
        /\ it[i].is_end_ \in BOOLEAN
        /\ pc[i] \in {"none", "free", "test", "body", "inc", "done"}

\* ------------------------------------------------------------- vocabulary
Built(i)     == hist[i].how # "none"
Exhausted(i) == it[i].is_end_
\* Iterator i has a current element (operator* is defined).
Active(i)    == ~it[i].is_end_ /\ it[i].current_index_ < Len(it[i].batch_)
\* The records of the remote enumerator, in remote order.
RemoteOrder  == [k \in 1..records |-> k]
\* Iterator i came from begin() and no other iterator was ever bound to
\* its cursor.
OnlyPass(i) ==
    /\ hist[i].how = "begin"
    /\ \A j \in Iters \ {i} : it[j].enumerator_ # it[i].enumerator_
\* Iterators i and j came from begin() of the same QueryResult.
SameResult(i, j) ==
    /\ i # j
    /\ hist[i].how = "begin"
    /\ hist[j].how = "begin"
    /\ it[i].enumerator_ = it[j].enumerator_
\* The range-for over iterator i has finished and none of its fetches failed.
CleanlyDone(i) == pc[i] = "done" /\ ~hist[i].failed

\* ---------------------------------------------------------------- claims
\* C1: a single failure-free range-for pass over a QueryResult dereferences
\* exactly the N records of the remote enumerator, in remote order, for every
\* batch limit B.
C1_SinglePassYieldsAll ==
    \A i \in Iters :
        OnlyPass(i) /\ CleanlyDone(i) => out[i] = RemoteOrder

C1_Witness ==
    \E i \in Iters :
        /\ OnlyPass(i) /\ CleanlyDone(i)
        /\ records > 2 * batchLimit
        /\ records % batchLimit # 0
        /\ hist[i].nfetch >= 4
        /\ Len(out[i]) = records

\* C2: two begin() calls on one QueryResult give two independent passes that
\* both yield the full sequence, however the passes are interleaved.
C2_IndependentPasses ==
    \A i, j \in Iters :
        /\ SameResult(i, j)
        /\ resetOk
        /\ CleanlyDone(i) /\ CleanlyDone(j)
        => out[i] = RemoteOrder /\ out[j] = RemoteOrder

\* C3: a begin() issued after an earlier pass was consumed to exhaustion
\* resets the cursor, and the new pass yields the same records as the first
\* (reset honoured, no fetch failure).
C3_RestartAfterExhaustion ==
    \A i, j \in Iters :
        /\ SameResult(i, j)
        /\ resetOk
        /\ hist[i].solo /\ hist[j].solo
        => /\ CleanlyDone(i) /\ CleanlyDone(j) =>
                out[j] = out[i] /\ Len(out[j]) = records
           /\ Exhausted(i) /\ hist[j].nfetch = 1 /\ hist[j].lastFetch = "ok" =>
                pos[it[j].enumerator_] = Len(it[j].batch_)

C3_Witness ==
    \E i, j \in Iters :
        /\ SameResult(i, j)
        /\ resetOk
        /\ hist[i].solo /\ hist[j].solo
        /\ CleanlyDone(i) /\ CleanlyDone(j)
        /\ records > batchLimit
        /\ Len(out[j]) = records

\* C4 (as claimed): two iterators compare equal iff both are Exhausted; two
\* non-exhausted iterators never compare equal.
C4_EqualIffBothExhausted ==
    \A i, j \in Iters :
        i # j /\ Built(i) /\ Built(j) =>
            (IterEq(it[i], it[j]) <=> (Exhausted(i) /\ Exhausted(j)))

\* C4 (amended): two iterators compare equal iff their end-of-sequence flags
\* agree; two iterators that both have a current element compare equal
\* whatever their cursors and positions, and neither equals an Exhausted one.
C4_EqualIffFlagsAgree ==
    \A i, j \in Iters :
        i # j /\ Built(i) /\ Built(j) =>
            /\ IterEq(it[i], it[j]) <=> (Exhausted(i) <=> Exhausted(j))
            /\ Active(i) /\ Active(j) => IterEq(it[i], it[j])
            /\ Active(i) /\ Exhausted(j) => ~IterEq(it[i], it[j])

C4_Witness ==
    \E i, j \in Iters :
        /\ Active(i) /\ Active(j)
        /\ it[i].enumerator_ # it[j].enumerator_
        /\ Deref(it[i]) # Deref(it[j])
        /\ IterEq(it[i], it[j])

\* C5: any two Exhausted iterators compare equal, an iterator that ran to its
\* end equals the end() sentinel, and a non-exhausted iterator never equals
\* the end() sentinel.
C5_ExhaustedEqualEnd ==
    \A i \in Iters :
        Built(i) =>
            /\ Exhausted(i) => IterEq(it[i], EndIterator)
            /\ ~Exhausted(i) => ~IterEq(it[i], EndIterator)
            /\ \A j \in Iters :
                  Built(j) /\ Exhausted(i) /\ Exhausted(j) =>
                      IterEq(it[i], it[j])
            /\ \A j \in Iters :
                  hist[j].how = "end" /\ ~Exhausted(i) =>
                      ~IterEq(it[i], it[j]) /\ ~IterEq(it[j], it[i])

C5_Witness ==
    \E i, j \in Iters :
        /\ hist[i].how = "begin" /\ Exhausted(i) /\ Len(out[i]) > 0
        /\ hist[j].how = "end"
        /\ IterEq(it[i], it[j])

\* C6: in every reachable state of an Iterator, however constructed, the
\* end-of-sequence flag is set or the index is a valid position of a
\* non-empty batch.
C6_IndexValidOrEnd ==
    \A i \in Iters :
        Built(i) =>
            it[i].is_end_ \/ it[i].current_index_ < Len(it[i].batch_)

\* C7: Exhausted is terminal: advancing past the last record of the last
\* batch exhausts the iterator, an advance on an Exhausted iterator issues no
\* fetch and changes no field, and nothing makes it Active again.
C7_ExhaustedTerminal ==
    [][\A i \in Iters :
          /\ Built(i) /\ Exhausted(i) =>
                /\ it'[i] = it[i]
                /\ hist'[i].nfetch = hist[i].nfetch
                /\ hist'[i].idle # hist[i].idle => pos' = pos /\ it' = it
          /\ /\ Built(i) /\ Active(i)
             /\ it'[i] # it[i]
             /\ it[i].current_index_ + 1 = Len(it[i].batch_)
             /\ pos[it[i].enumerator_] = records
             => Exhausted(i)' /\ hist'[i].nfetch = hist[i].nfetch + 1]_vars

C7_Witness ==
    \E i \in Iters :
        /\ hist[i].how = "begin"
        /\ Exhausted(i)
        /\ hist[i].nfetch >= 3
        /\ hist[i].lastFetch = "empty"
        /\ hist[i].idle = MaxIdle
        /\ \E j \in Iters : SameResult(i, j) /\ Active(j)

\* C8: a failed fetch, at construction or on advance, leaves the iterator
\* Exhausted with an empty batch and equal to end(), exactly as a fetch that
\* returned zero records does.
AfterEndOfData ==
    [batch_ |-> <<>>, current_index_ |-> 0, is_end_ |-> TRUE]

Observable(i) ==
    [batch_ |-> it[i].batch_, current_index_ |-> it[i].current_index_,
     is_end_ |-> it[i].is_end_]

C8_FailureIsEndOfData ==
    \A i \in Iters :
        /\ hist[i].lastFetch = "failed" =>
              Observable(i) = AfterEndOfData /\ IterEq(it[i], EndIterator)
        /\ hist[i].lastFetch = "empty" =>
              Observable(i) = AfterEndOfData /\ IterEq(it[i], EndIterator)

C8_Witness ==
    \E i, j \in Iters :
        /\ hist[i].lastFetch = "failed" /\ hist[i].nfetch = 1
        /\ hist[j].lastFetch = "failed" /\ hist[j].nfetch > 1
        /\ Len(out[j]) > 0

\* C9: constructing a non-end iterator over a valid cursor issues exactly one
\* fetch and leaves the iterator Active at index 0 with 1..B records, or
\* Exhausted when that fetch returned nothing or failed; for N = 0 begin()
\* equals end() at once and the range-for body never runs.
C9_ConstructionFetchesOnce ==
    /\ [][\A i \in Iters :
            /\ ~Built(i) /\ Built(i)'
            /\ ~hist'[i].argEnd
            /\ it'[i].enumerator_ # NULL
            => /\ hist'[i].nfetch = 1
               /\ \/ /\ Active(i)'
                     /\ it'[i].current_index_ = 0
                     /\ Len(it'[i].batch_) \in 1..batchLimit
                     /\ hist'[i].lastFetch = "ok"
                  \/ /\ Exhausted(i)'
                     /\ hist'[i].lastFetch \in {"empty", "failed"}]_vars
    /\ [](\A i \in Iters :
            hist[i].how = "begin" /\ records = 0 =>
                /\ IterEq(it[i], EndIterator)
                /\ pc[i] \notin {"body", "inc"}
                /\ out[i] = <<>>)

C9_Witness ==
    \E i, j \in Iters :
        /\ hist[i].how = "begin" /\ pc[i] = "done" /\ records = 0
        /\ hist[i].nfetch = 1 /\ hist[i].lastFetch = "empty"
        /\ hist[j].how = "ctor" /\ ~hist[j].argEnd
        /\ it[j].enumerator_ # NULL /\ hist[j].nfetch = 1

\* C10: end() returns a sentinel that is Exhausted from construction, bound to
\* no cursor, with an empty batch; it issues no fetch and no reset and leaves
\* the cursor and every other iterator unchanged.
C10_EndSentinel ==
    /\ [](\A i \in Iters :
            hist[i].how = "end" =>
                /\ Exhausted(i)
                /\ it[i].enumerator_ = NULL
                /\ it[i].batch_ = <<>>
                /\ hist[i].nfetch = 0)
    /\ [][\A i \in Iters :
            ~Built(i) /\ hist'[i].how = "end" =>
                /\ pos' = pos
                /\ \A j \in Iters \ {i} :
                      it'[j] = it[j] /\ hist'[j] = hist[j]]_vars

C10_Witness ==
    \E i, j \in Iters :
        /\ hist[i].how = "end" /\ hist[i].idle > 0
        /\ Active(j) /\ pos[it[j].enumerator_] > 0

\* C18: over a finite result set a range-for started from begin() ends
\* after finitely many advances, whether its fetches succeed or fail: its
\* iterator becomes Exhausted, compares equal to end(), and the loop is left.
C18_LoopTerminates ==
    \A i \in Iters :
        (hist[i].how = "begin") ~>
            (pc[i] = "done" /\ Exhausted(i) /\ IterEq(it[i], EndIterator))

C18_Witness ==
    \E i \in Iters :
        /\ pc[i] = "done"
        /\ Exhausted(i)
        /\ hist[i].failed
        /\ hist[i].nfetch >= 3
        /\ Len(out[i]) >= 3

\* C19: what one pass has dereferenced is at every moment a prefix of the
\* remote sequence, every fetched record delivered once and in remote order;
\* a failed fetch exhausts the iterator, and after it nothing more is
\* delivered.
C19_FailedPassYieldsPrefix ==
    /\ [](\A i \in Iters :
            /\ OnlyPass(i) /\ pc[i] # "free" =>
                   /\ Len(out[i]) <= records
                   /\ out[i] = SubSeq(RemoteOrder, 1, Len(out[i]))
            /\ hist[i].failed => Exhausted(i)
            /\ OnlyPass(i) /\ hist[i].failed /\ pc[i] = "done" =>
                   Len(out[i]) = pos[it[i].enumerator_])
    /\ [][\A i \in Iters : hist[i].failed => out'[i] = out[i]]_vars

C19_Witness ==
    \E i \in Iters :
        /\ OnlyPass(i)
        /\ pc[i] = "done"
        /\ hist[i].failed
        /\ hist[i].nfetch >= 3
        /\ Len(out[i]) >= 2
        /\ Len(out[i]) < records

\* A remote fetch was issued for iterator i in this step.
FetchIssued(i) == hist'[i].nfetch = hist[i].nfetch + 1

\* This step is an advance of iterator i, bound to a cursor and not
\* Exhausted, that makes its index reach the size of its batch.
AdvanceReachesSize(i) ==
    /\ \/ pc[i] = "inc" /\ pc'[i] = "test"
       \/ pc[i] = "free" /\ it'[i] # it[i]
    /\ it[i].enumerator_ # NULL
    /\ ~it[i].is_end_
    /\ it[i].current_index_ + 1 >= Len(it[i].batch_)

\* The rule for when fetches are issued: one at a non-end construction over
\* a cursor and none at any other construction; afterwards one by each
\* advance that makes the index reach the batch size and none by any other
\* step (an advance short of the batch size, dereference, comparison, any
\* operation on an Exhausted iterator); and what a pass has fetched it has
\* delivered in full before it fetches again.
FetchRule ==
    \A i \in Iters :
        /\ ~Built(i) /\ hist'[i].how # "none" =>
               hist'[i].nfetch =
                   IF ~hist'[i].argEnd /\ it'[i].enumerator_ # NULL
                   THEN 1 ELSE 0
        /\ Built(i) =>
               /\ hist'[i].nfetch \in {hist[i].nfetch, hist[i].nfetch + 1}
               /\ FetchIssued(i) => pc[i] \in {"inc", "free"}
               /\ FetchIssued(i) =>
                      /\ ~it[i].is_end_
                      /\ it[i].current_index_ + 1 >= Len(it[i].batch_)
               /\ AdvanceReachesSize(i) => FetchIssued(i)
               /\ FetchIssued(i) /\ OnlyPass(i) /\ pc[i] = "inc" =>
                      Len(out[i]) = pos[it[i].enumerator_]

\* The fetches iterator i has issued in all: none for one constructed as
\* the end or over no cursor, at least the one of its construction
\* otherwise, and batches + 1 once its failure-free pass, the only one over
\* its cursor, is over.
FetchTotals(batches) ==
    \A i \in Iters :
        /\ Built(i) /\ (hist[i].argEnd \/ it[i].enumerator_ = NULL) =>
               hist[i].nfetch = 0
        /\ Built(i) /\ ~hist[i].argEnd /\ it[i].enumerator_ # NULL =>
               hist[i].nfetch >= 1
        /\ OnlyPass(i) /\ CleanlyDone(i) => hist[i].nfetch = batches + 1

\* C20 as stated: a fetch at a non-end construction over a valid cursor,
\* none for an Exhausted iterator, and a failure-free pass over N records
\* with batches of B issues floor(N/B)+1 fetches.
C20_FetchCountFloor == FetchTotals(records \div batchLimit)

\* C20 amended: one fetch at a non-end construction over a valid cursor,
\* afterwards one by each advance that makes the index reach the batch size
\* and none by any other step; a failure-free pass over N records with
\* batches of B issues ceil(N/B)+1 fetches: one per batch, the short last
\* one included, and the one that finds no more.
C20_FetchCountCeil ==
    /\ [][FetchRule]_vars
    /\ []FetchTotals((records + batchLimit - 1) \div batchLimit)

C20_Witness ==
    \E i \in Iters :
        /\ OnlyPass(i) /\ CleanlyDone(i)
        /\ records > batchLimit
        /\ records % batchLimit # 0
        /\ hist[i].nfetch = (records \div batchLimit) + 2

\* Some pass from begin() over cursor q has run to the end of the data.
FullPassOver(q) ==
    \E i \in Iters :
        /\ hist[i].how = "begin"
        /\ it[i].enumerator_ = q
        /\ Exhausted(i)
        /\ hist[i].lastFetch = "empty"

OneBatch(i) ==
    /\ Len(it[i].batch_) <= batchLimit
    /\ \A k \in 1..(Len(it[i].batch_) - 1) :
           it[i].batch_[k + 1] = it[i].batch_[k] + 1

\* C23: in every reachable state the batch of an iterator holds at most the
\* batch limit, itself at most 10, and only records of one fetch; a fetch
\* asks for the batch limit, so it stores a full batch unless the data ran
\* out, and it stores exactly the records just handed out, with the index
\* back at 0 and nothing of the batch before.
C23_BatchWithinLimit ==
    /\ [](/\ batchLimit <= BATCH_SIZE
          /\ \A i \in Iters : OneBatch(i))
    /\ [][\A i \in Iters :
            FetchIssued(i) =>
                LET q == it'[i].enumerator_
                    n == Len(it'[i].batch_)
                IN  /\ it'[i].current_index_ = 0
                    /\ it'[i].batch_ = [k \in 1..n |-> pos'[q] - n + k]
                    /\ hist'[i].lastFetch = "ok" =>
                           n = batchLimit \/ pos'[q] = records
                    /\ hist'[i].lastFetch # "ok" => n = 0]_vars

C23_Witness ==
    \E i \in Iters :
        /\ OnlyPass(i)
        /\ batchLimit >= 2
        /\ hist[i].nfetch = 2
        /\ Len(it[i].batch_) = batchLimit
        /\ it[i].batch_[1] = batchLimit + 1
        /\ records > 2 * batchLimit

====
